---------------------------- MODULE Spec2Model ----------------------------
(***************************************************************************)
(* Tic-tac-toe with minimax search, repository eladj/AI.                   *)
(*                                                                         *)
(* The repository holds two independent programs:                          *)
(*   - src/tic_tac_toe.py       bitboard State, Game, recursive minimax    *)
(*   - src/tic_tac_toe/game.py  array Board, Game, tree-building           *)
(*                              find_best_move and minimax over Nodes      *)
(* The variable prog says which of the two programs is running; the other  *)
(* program's object stays as constructed.                                  *)
(*                                                                         *)
(* Encodings.                                                              *)
(*   - A numpy uint16 is the set of the positions (0..15) of its 1-bits:   *)
(*     & is \cap, | is \cup, ~ is the complement in 0..15, a value is      *)
(*     truthy iff the set is not empty.                                    *)
(*   - An Enum member is the string of its name; ScoreValue gives .value   *)
(*     of a Score; Piece.X and Piece.O are their values 0 and 1, which     *)
(*     index State.bits and are stored in the array board.                 *)
(*   - Python None, where a move is expected, is the empty tuple <<>>      *)
(*     and a move m is <<m>>.                                              *)
(*   - An exception is its message in the variable raised; a call that     *)
(*     raises ends the script (no caller in the repository catches).       *)
(***************************************************************************)
EXTENDS Integers, Sequences, FiniteSets

VARIABLES
    prog,      \* "bitboard" (tic_tac_toe.py) or "array" (tic_tac_toe/game.py)
    state,     \* tic_tac_toe.py: Game.state, a State object
    game,      \* game.py: the Game object
    raised,    \* "none", or the exception the last call raised
    result     \* what the last call returned

vars == <<prog, state, game, raised, result>>

-----------------------------------------------------------------------------
(* Bounds of the model *)

\* Calls are tried with coordinates and indices up to Margin outside the grid.
Margin == 1
\* Spec: a search is started only on boards with at most MaxSearchEmpty
\* empty cells.
MaxSearchEmpty == 4
\* SpecOpening: minimax is called after at most MaxOpeningMarks moves.
MaxOpeningMarks == 0
\* SpecExample: find_best_move is called on boards with at most
\* MaxExampleEmpty empty cells.
MaxExampleEmpty == 5
\* SpecTraversal: a search is started only on boards with at most
\* MaxTraverseEmpty empty cells.
MaxTraverseEmpty == 3
\* find_best_move is also called with the cut-off depths 0..MaxCutDepth.
MaxCutDepth == 1

-----------------------------------------------------------------------------
(* tic_tac_toe.py: constants and enums *)

BOARD_SIZE == 3
X == 0
O == 1
Pieces == {X, O}
NoResult == [op |-> "none"]
None == <<>>

\* (mutant) Lose valued like Win
ScoreValue_unsigned(score) ==
    CASE score = "Win"  -> 1
      [] score = "Draw" -> 0
      [] score = "Lose" -> 1

\* Score(Enum).value
ScoreValue(score) ==
    CASE score = "Win"  -> 1
      [] score = "Draw" -> 0
      [] score = "Lose" -> -1

\* float('inf'): any number above every Score value behaves the same
Inf == 2

\* the 16 bit positions of BIT_TYPE
BitPositions == 0..15

\* State._valid_bitmask = 0b000000111111111
valid_bitmask == 0..8

\* State._ind_to_bit: BIT_TYPE(2**ind)
ind_to_bit(ind) == {ind} \cap BitPositions

\* Move.__init__: np.unravel_index(ind, (3, 3)) raises outside 0..8
MoveCtorRaises(ind) == ind < 0 \/ ind >= BOARD_SIZE * BOARD_SIZE

Move(ind, piece) ==
    [ind |-> ind, piece |-> piece,
     row |-> ind \div BOARD_SIZE, col |-> ind % BOARD_SIZE]

\* State.__init__
NewState ==
    [bits |-> [p \in Pieces |-> {}],
     current_piece_turn |-> X,
     is_game_on |-> TRUE,
     score |-> "None"]

-----------------------------------------------------------------------------
(* tic_tac_toe.py: State *)

\* State.set_square: only the bit of the piece being placed is tested
set_square(s, ind, piece) ==
    LET bb_tile == ind_to_bit(ind) IN
    IF s.bits[piece] \cap bb_tile # {}
    THEN [state |-> s, raised |-> "Illegal 'set_square': tile is occupied"]
    ELSE [state |-> [s EXCEPT !.bits[piece] = @ \cup bb_tile], raised |-> "none"]

\* the turn switch of State.do_move and Game._advance_turn
other_piece(piece) == IF piece = X THEN O ELSE X

\* State.do_move
do_move(s, move) ==
    LET r == set_square(s, move.ind, move.piece) IN
    IF r.raised # "none" THEN r
    ELSE [state |-> [r.state EXCEPT !.current_piece_turn = other_piece(@)],
          raised |-> "none"]

\* State.is_occupied (truthiness of the returned bits)
is_occupied(s, ind) ==
    LET bb_tile == ind_to_bit(ind) IN
    ((s.bits[X] \cap bb_tile) \cup (s.bits[O] \cap bb_tile)) # {}

\* State.clear
clear(s) == [s EXCEPT !.bits = [p \in Pieces |-> {}]]

\* State.clear_square: ~ of a uint16 is its 16-bit complement, and the test
\* is that complement's truthiness
clear_square(s, ind, piece) ==
    LET bb_tile == ind_to_bit(ind) IN
    IF BitPositions \ (s.bits[piece] \cap bb_tile) # {}
    THEN [state |-> s, raised |-> "Illegal 'clear_square': tile is already empty"]
    ELSE [state |-> [s EXCEPT !.bits[piece] = @ \cap (BitPositions \ bb_tile)],
          raised |-> "none"]

\* (mutant) a draw mask one bit short: 0b011111111
is_draw_short_mask(s) ==
    LET draw_state == 0..7 IN
    ((s.bits[X] \cup s.bits[O]) \cap draw_state) = draw_state

\* State.is_draw
is_draw(s) ==
    LET draw_state == 0..8 IN
    ((s.bits[X] \cup s.bits[O]) \cap draw_state) = draw_state

\* (mutant) the first row's mask with bit 3 in place of bit 2
win_states_bad_row ==
    << {0, 1, 3}, {3, 4, 5}, {6, 7, 8},
       {2, 5, 8}, {1, 4, 7}, {0, 3, 6},
       {0, 4, 8}, {2, 4, 6} >>

\* the tuple win_states of State.has_ended, in its order
win_states ==
    << {0, 1, 2}, {3, 4, 5}, {6, 7, 8},
       {2, 5, 8}, {1, 4, 7}, {0, 3, 6},
       {0, 4, 8}, {2, 4, 6} >>

\* (mutant) the win states are not tested, only the draw
has_ended_draw_only(s) ==
    IF is_draw(s)
    THEN [ended |-> TRUE, score |-> "Draw"]
    ELSE [ended |-> FALSE, score |-> "None"]

\* State.has_ended: the first win state, in tuple order, that X or else O
\* covers decides; then the draw test
has_ended(s) ==
    LET covers(p, i) == (s.bits[p] \cap win_states[i]) = win_states[i]
        covered == {i \in 1..Len(win_states) : covers(X, i) \/ covers(O, i)}
    IN  IF covered # {}
        THEN [ended |-> TRUE,
              score |-> IF covers(X, CHOOSE i \in covered : \A j \in covered : i <= j)
                        THEN "Win" ELSE "Lose"]
        ELSE IF is_draw(s)
        THEN [ended |-> TRUE, score |-> "Draw"]
        ELSE [ended |-> FALSE, score |-> "None"]

\* State.open_tiles
open_tiles(s) ==
    LET open_tiles_bits ==
            (BitPositions \ (s.bits[X] \cup s.bits[O])) \cap valid_bitmask
    IN  SelectSeq([k \in 1..(BOARD_SIZE * BOARD_SIZE) |-> k - 1],
                  LAMBDA n : n \in open_tiles_bits)


\* copy.deepcopy: an independent object with the same contents
deepcopy(obj) == obj

-----------------------------------------------------------------------------
(* tic_tac_toe.py: Game *)

\* Game.reset: only State.clear is called
reset(s) == clear(s)

\* (mutant) check_move_valid without its last test
check_move_valid_ignores_end(s, move) ==
    IF move.row < 0 \/ move.row >= BOARD_SIZE \/ move.col < 0 \/ move.col >= BOARD_SIZE
    THEN "Move not valid: out of bounds"
    ELSE IF move.piece # s.current_piece_turn
    THEN "Move not valid: wrong player to move"
    ELSE IF is_occupied(s, move.ind)
    THEN "Move not valid: tile already occupied"
    ELSE "none"

\* Game.check_move_valid: the message of the first check that fails
check_move_valid(s, move) ==
    IF move.row < 0 \/ move.row >= BOARD_SIZE \/ move.col < 0 \/ move.col >= BOARD_SIZE
    THEN "Move not valid: out of bounds"
    ELSE IF move.piece # s.current_piece_turn
    THEN "Move not valid: wrong player to move"
    ELSE IF is_occupied(s, move.ind)
    THEN "Move not valid: tile already occupied"
    ELSE IF s.current_piece_turn # move.piece
    THEN "Move not valid: That's not your turn"
    ELSE IF ~s.is_game_on
    THEN "Move not valid: game has ended"
    ELSE "none"

\* (mutant) the turn is left with the player who moved
advance_turn_skipped(s) == s

\* Game._advance_turn
advance_turn(s) == [s EXCEPT !.current_piece_turn = other_piece(@)]

\* Game.play_turn
play_turn(s, move) ==
    LET invalid == check_move_valid(s, move) IN
    IF invalid # "none" THEN [state |-> s, raised |-> invalid]
    ELSE LET placed == set_square(s, move.ind, move.piece) IN
         IF placed.raised # "none" THEN placed
         ELSE LET he == has_ended(placed.state) IN
              IF he.ended
              THEN [state |-> [placed.state EXCEPT !.is_game_on = FALSE,
                                                   !.score = he.score],
                    raised |-> "none"]
              ELSE [state |-> advance_turn(placed.state), raised |-> "none"]

-----------------------------------------------------------------------------
(* tic_tac_toe.py: minimax *)

\* (mutant) the minimizing branch copied from the maximizing one with its
\* comparison left as it was
improves_greater_only(maximizing_player, cur_value, value) == cur_value > value

\* the comparisons of the two branches: cur_value > value when maximizing,
\* cur_value < value when minimizing
improves(maximizing_player, cur_value, value) ==
    IF maximizing_player THEN cur_value > value ELSE cur_value < value

\* (mutant) the move is made on the state itself, no copy is taken
try_move_in_place(s, move) ==
    LET moved == do_move(s, move) IN
    [state |-> moved.state, new_state |-> moved.state, raised |-> moved.raised]

\* one pass of the loop body up to the recursive call: the move is made on
\* a deep copy, the state the search was called on is left as it is
try_move(s, move) ==
    LET moved == do_move(deepcopy(s), move) IN
    [state |-> s, new_state |-> moved.state, raised |-> moved.raised]

\* minimax(state, maximizing_player): the returned (best_move, value), the
\* State object it was called on as the call leaves it, and the exception
\* that escaped, if any.  tried holds each pass's deepcopy and do_move, made
\* on the state as the pass before left it; calls holds the result of each
\* pass's recursive call; loop folds the update of (best_move, value) over
\* the passes in order, and a pass that raises ends it.  With no recursive
\* call at all there was no pass, or the first one raised in do_move.
RECURSIVE minimax(_, _)
minimax(s, maximizing_player) ==
    LET he == has_ended(s) IN
    IF he.ended
    THEN [move |-> None, value |-> ScoreValue(he.score),
          state |-> s, raised |-> "none"]
    ELSE
    LET ot == open_tiles(s)
        moves_list == [k \in 1..Len(ot) |-> Move(ot[k], s.current_piece_turn)]
        tried[k \in 0..Len(moves_list)] ==
            IF k = 0 THEN <<>>
            ELSE LET before == tried[k - 1]
                     on == IF k = 1 THEN s ELSE before[k - 1].state
                 IN  Append(before, try_move(on, moves_list[k]))
        all_tried == tried[Len(moves_list)]
        calls == {<<k, minimax(all_tried[k].new_state, ~maximizing_player)>>
                     : k \in {j \in 1..Len(moves_list) : all_tried[j].raised = "none"}}
        loop[k \in 0..Len(moves_list)] ==
            IF k = 0
            THEN [move |-> None,
                  value |-> IF maximizing_player THEN -Inf ELSE Inf,
                  state |-> s, raised |-> "none"]
            ELSE
            LET acc == loop[k - 1]
                t == all_tried[k]
            IN  IF acc.raised # "none" THEN acc
                ELSE IF t.raised # "none"
                THEN [acc EXCEPT !.state = t.state, !.raised = t.raised]
                ELSE
                LET sub == (CHOOSE c \in calls : c[1] = k)[2]
                    cur_value == sub.value
                IN  IF sub.raised # "none"
                    THEN [acc EXCEPT !.state = t.state, !.raised = sub.raised]
                    ELSE IF improves(maximizing_player, cur_value, acc.value)
                    THEN [move |-> <<moves_list[k]>>, value |-> cur_value,
                          state |-> t.state, raised |-> "none"]
                    ELSE [acc EXCEPT !.state = t.state]
    IN  IF calls = {}
        THEN loop[IF Len(moves_list) = 0 THEN 0 ELSE 1]
        ELSE loop[Len(moves_list)]

\* the do_move calls of minimax(s, maximizing_player), those of its
\* recursive calls included: the state each was made on (the deep copy as
\* taken), the move, and the state it left
RECURSIVE minimax_placements(_, _)
minimax_placements(s, maximizing_player) ==
    IF has_ended(s).ended THEN {}
    ELSE
    LET ot == open_tiles(s)
        moves_list == [k \in 1..Len(ot) |-> Move(ot[k], s.current_piece_turn)]
    IN  UNION {LET move == moves_list[k]
                   t == try_move(s, move)
               IN  {[on |-> deepcopy(s), move |-> move, new_state |-> t.new_state,
                     raised |-> t.raised]}
                      \cup (IF t.raised # "none" THEN {}
                            ELSE minimax_placements(t.new_state, ~maximizing_player))
               : k \in 1..Len(moves_list)}

\* the greatest number of a non-empty finite set of numbers
Highest(S) == CHOOSE m \in S : \A n \in S : n <= m

\* the number of minimax calls nested inside the call minimax(s, ...): none
\* when has_ended() returns at once, otherwise one more than the deepest of
\* the calls its passes make
RECURSIVE minimax_depth(_)
minimax_depth(s) ==
    IF has_ended(s).ended THEN 0
    ELSE LET ot == open_tiles(s)
             below == {LET t == try_move(s, Move(ot[k], s.current_piece_turn)) IN
                       IF t.raised # "none" THEN 0
                       ELSE 1 + minimax_depth(t.new_state)
                          : k \in 1..Len(ot)}
         IN  Highest(below \cup {0})

-----------------------------------------------------------------------------
(* tic_tac_toe/game.py: Tile, Move, Board *)

\* Tile.Empty.value
Empty == 2

\* the rows and cols of Board(rows=3, cols=3)
ROWS == 3
COLS == 3

\* Move(x, y, piece)
GameMove(x, y, piece) == [x |-> x, y |-> y, piece |-> piece]

\* Board.reset: np.ones((rows, cols)) * Tile.Empty.value, indexed [y, x]
Board_reset == [yx \in (0..(ROWS - 1)) \X (0..(COLS - 1)) |-> Empty]

\* numpy indexing self.board[y, x] with non-negative y and x
IndexInArray(board, y, x) == <<y, x>> \in DOMAIN board

\* the bounds test of Board.get_tile and Board.set_tile
TileOutOfBounds(x, y) == x > COLS \/ y > ROWS \/ x < 0 \/ y < 0

\* Board.get_tile
Board_get_tile(board, x, y) ==
    IF TileOutOfBounds(x, y)
    THEN [tile |-> Empty, raised |-> "Tile out of bounds"]
    ELSE IF ~IndexInArray(board, y, x)
    THEN [tile |-> Empty, raised |-> "IndexError"]
    ELSE [tile |-> board[<<y, x>>], raised |-> "none"]

\* (mutant) set_tile that loses the write to the last tile
Board_set_tile_drops_last(board, move) ==
    IF TileOutOfBounds(move.x, move.y)
    THEN [board |-> board, raised |-> "Tile out of bounds"]
    ELSE IF ~IndexInArray(board, move.y, move.x)
    THEN [board |-> board, raised |-> "IndexError"]
    ELSE [board |-> IF move.y = ROWS - 1 /\ move.x = COLS - 1 THEN board
                    ELSE [board EXCEPT ![<<move.y, move.x>>] = move.piece],
          raised |-> "none"]

\* Board.set_tile
Board_set_tile(board, move) ==
    IF TileOutOfBounds(move.x, move.y)
    THEN [board |-> board, raised |-> "Tile out of bounds"]
    ELSE IF ~IndexInArray(board, move.y, move.x)
    THEN [board |-> board, raised |-> "IndexError"]
    ELSE [board |-> [board EXCEPT ![<<move.y, move.x>>] = move.piece],
          raised |-> "none"]

-----------------------------------------------------------------------------
(* tic_tac_toe/game.py: Game *)

\* Game.players: [Player(piece=Piece.X), Player(piece=Piece.O)]
players == [i \in 0..1 |-> IF i = 0 THEN X ELSE O]

\* Game.player_to_move.piece
player_to_move_piece(g) == players[g.player_ind_to_move]

\* Game.reset
Game_reset(g) ==
    [g EXCEPT !.board = Board_reset,
              !.game_state = "Playing",
              !.player_ind_to_move = 0]

\* Game.__init__ (the list _move_list is appended to and never read: left out)
NewGame ==
    Game_reset([board |-> Board_reset,
                game_state |-> "Finished",
                player_ind_to_move |-> 0,
                score |-> "Draw"])

\* (mutant) is_win without the second diagonal
Game_is_win_one_diagonal(g, piece) ==
    LET b == [yx \in DOMAIN g.board |-> g.board[yx] = piece]
    IN  \/ \E x \in 0..(COLS - 1) : \A y \in 0..(ROWS - 1) : b[<<y, x>>]
        \/ \E y \in 0..(ROWS - 1) : \A x \in 0..(COLS - 1) : b[<<y, x>>]
        \/ \A i \in 0..(ROWS - 1) : b[<<i, i>>]

\* Game.is_win
Game_is_win(g, piece) ==
    LET b == [yx \in DOMAIN g.board |-> g.board[yx] = piece]
        rows_win == \E x \in 0..(COLS - 1) : \A y \in 0..(ROWS - 1) : b[<<y, x>>]
        cols_win == \E y \in 0..(ROWS - 1) : \A x \in 0..(COLS - 1) : b[<<y, x>>]
        diag1_win == \A i \in 0..(ROWS - 1) : b[<<i, i>>]
        diag2_win == \A i \in 0..(ROWS - 1) : b[<<i, COLS - 1 - i>>]
    IN  rows_win \/ cols_win \/ diag1_win \/ diag2_win

\* Game.is_draw
Game_is_draw(g) == ~(\E yx \in DOMAIN g.board : g.board[yx] = Empty)

\* (mutant) the true entries in column-major order
nonzero_column_major(b) ==
    SelectSeq([k \in 1..(ROWS * COLS) |-> <<(k - 1) % ROWS, (k - 1) \div ROWS>>],
              LAMBDA yx : b[yx])

\* np.nonzero of a 2-d array: the [y, x] of the true entries, row-major
nonzero(b) ==
    SelectSeq([k \in 1..(ROWS * COLS) |-> <<(k - 1) \div COLS, (k - 1) % COLS>>],
              LAMBDA yx : b[yx])

\* Game.get_valid_moves: the arrays x and y
Game_get_valid_moves(g) ==
    LET yx == nonzero([c \in DOMAIN g.board |-> g.board[c] = Empty]) IN
    [x |-> [k \in 1..Len(yx) |-> yx[k][2]],
     y |-> [k \in 1..Len(yx) |-> yx[k][1]]]

\* Game.make_move
Game_make_move(g, move) ==
    IF g.game_state # "Playing"
    THEN [game |-> g, raised |-> "GameState is not GameState.Playing"]
    ELSE
    LET got == Board_get_tile(g.board, move.x, move.y) IN
    IF got.raised # "none" THEN [game |-> g, raised |-> got.raised]
    ELSE IF got.tile # Empty THEN [game |-> g, raised |-> "Tile Not Empty"]
    ELSE IF move.piece # player_to_move_piece(g)
    THEN [game |-> g, raised |-> "It's not your turn"]
    ELSE
    LET put == Board_set_tile(g.board, move) IN
    IF put.raised # "none" THEN [game |-> g, raised |-> put.raised]
    ELSE
    LET g1 == [g EXCEPT !.board = put.board] IN
    IF Game_is_win(g1, player_to_move_piece(g1))
    THEN [game |-> [g1 EXCEPT !.score = IF player_to_move_piece(g1) = X
                                        THEN "Win" ELSE "Lose",
                              !.game_state = "Finished"],
          raised |-> "none"]
    ELSE IF Game_is_draw(g1)
    THEN [game |-> [g1 EXCEPT !.score = "Draw", !.game_state = "Finished"],
          raised |-> "none"]
    ELSE [game |-> [g1 EXCEPT !.player_ind_to_move = (@ + 1) % 2],
          raised |-> "none"]

-----------------------------------------------------------------------------
(* tic_tac_toe/game.py: Node, minimax over Nodes, Game.find_best_move *)

\* Node(value, state): state and parent are stored and never read: left out
Node(value, children) == [value |-> value, children |-> children]

\* Node.is_terminal
is_terminal(node) == Len(node.children) = 0

\* the default of find_best_move's depth
DEFAULT_DEPTH == 9

\* minimax(node, depth, maximizing_player) of game.py: the node as the call
\* leaves it (its value and its children's values are assigned in place).
\* calls holds the node each child's recursive call returned; loop folds
\* the update of node.value over the children in order.
RECURSIVE Node_minimax(_, _, _)
Node_minimax(node, depth, maximizing_player) ==
    IF depth = 0 \/ is_terminal(node) THEN node
    ELSE
    LET calls == {<<k, Node_minimax(node.children[k], depth - 1, ~maximizing_player)>>
                     : k \in 1..Len(node.children)}
        loop[k \in 0..Len(node.children)] ==
            IF k = 0
            THEN Node(IF maximizing_player THEN -Inf ELSE Inf, <<>>)
            ELSE
            LET acc == loop[k - 1]
                next_node == (CHOOSE c \in calls : c[1] = k)[2]
                better == IF maximizing_player
                          THEN next_node.value > acc.value
                          ELSE next_node.value < acc.value
            IN  Node(IF better THEN next_node.value ELSE acc.value,
                     Append(acc.children, next_node))
    IN  loop[Cardinality(calls)]

\* (mutant) np.argmin in place of np.argmax
argmin(values) ==
    CHOOSE i \in 1..Len(values) :
        /\ \A j \in 1..Len(values) : values[i] <= values[j]
        /\ \A j \in 1..(i - 1) : values[i] < values[j]

\* np.argmax of a non-empty list: the first index (from 1) of the greatest value
argmax(values) ==
    CHOOSE i \in 1..Len(values) :
        /\ \A j \in 1..Len(values) : values[j] <= values[i]
        /\ \A j \in 1..(i - 1) : values[j] < values[i]

\* find_best_move, lines 202-204: the move is made on a deep copy of game_obj
try_make_move(game_obj, x, y) ==
    LET game_copy == deepcopy(game_obj)
        made == Game_make_move(game_copy, GameMove(x, y, player_to_move_piece(game_copy)))
    IN  [game_obj |-> game_obj, game_copy |-> made.game, raised |-> made.raised]

\* find_best_move, lines 199-212: the children added to the node of
\* game_obj, game_obj as the loop leaves it, and the exception that escaped
RECURSIVE expand(_, _)
expand(game_obj, depth) ==
    LET valid == Game_get_valid_moves(game_obj)
        loop[k \in 0..Len(valid.x)] ==
            IF k = 0
            THEN [children |-> <<>>, game_obj |-> game_obj, raised |-> "none"]
            ELSE
            LET acc == loop[k - 1] IN
            IF acc.raised # "none" THEN acc
            ELSE
            LET t == try_make_move(acc.game_obj, valid.x[k], valid.y[k]) IN
            IF t.raised # "none"
            THEN [acc EXCEPT !.game_obj = t.game_obj, !.raised = t.raised]
            ELSE
            LET value == ScoreValue(t.game_copy.score)
                sub == IF t.game_copy.game_state = "Playing" /\ depth > 0
                       THEN expand(t.game_copy, depth - 1)
                       ELSE [children |-> <<>>, game_obj |-> t.game_copy,
                             raised |-> "none"]
            IN  [children |-> Append(acc.children, Node(value, sub.children)),
                 game_obj |-> t.game_obj,
                 raised |-> sub.raised]
    IN  loop[Len(valid.x)]

\* the make_move calls of find_best_move(game_obj, depth=depth), those of
\* its recursive calls included: the game each was made on (the deep copy as
\* taken), the move, the game it left and the exception it raised
RECURSIVE expand_placements(_, _)
expand_placements(game_obj, depth) ==
    LET valid == Game_get_valid_moves(game_obj) IN
    UNION {LET t == try_make_move(game_obj, valid.x[k], valid.y[k]) IN
           {[on |-> deepcopy(game_obj),
             move |-> GameMove(valid.x[k], valid.y[k], player_to_move_piece(game_obj)),
             new_game |-> t.game_copy, raised |-> t.raised]}
              \cup (IF /\ t.raised = "none"
                       /\ t.game_copy.game_state = "Playing"
                       /\ depth > 0
                    THEN expand_placements(t.game_copy, depth - 1)
                    ELSE {})
           : k \in 1..Len(valid.x)}

\* the number of find_best_move calls nested inside the call
\* find_best_move(game_obj, depth=depth)
RECURSIVE find_best_move_depth(_, _)
find_best_move_depth(game_obj, depth) ==
    LET valid == Game_get_valid_moves(game_obj)
        below == {LET t == try_make_move(game_obj, valid.x[k], valid.y[k]) IN
                  IF /\ t.raised = "none"
                     /\ t.game_copy.game_state = "Playing"
                     /\ depth > 0
                  THEN 1 + find_best_move_depth(t.game_copy, depth - 1)
                  ELSE 0
                     : k \in 1..Len(valid.x)}
    IN  Highest(below \cup {0})

\* the number of minimax calls nested inside the call minimax(node, depth)
\* of game.py
RECURSIVE Node_minimax_depth(_, _)
Node_minimax_depth(node, depth) ==
    IF depth = 0 \/ is_terminal(node) THEN 0
    ELSE 1 + Highest({Node_minimax_depth(node.children[k], depth - 1)
                         : k \in 1..Len(node.children)})

\* the values find_best_move gives the nodes it adds after exactly level
\* moves for positions that are still playing: game_copy.score.value
RECURSIVE playing_node_values(_, _)
playing_node_values(game_obj, level) ==
    LET valid == Game_get_valid_moves(game_obj) IN
    UNION {LET t == try_make_move(game_obj, valid.x[k], valid.y[k]) IN
           IF t.raised # "none" \/ t.game_copy.game_state # "Playing" THEN {}
           ELSE IF level = 1 THEN {ScoreValue(t.game_copy.score)}
           ELSE playing_node_values(t.game_copy, level - 1)
              : k \in 1..Len(valid.x)}

\* Game.find_best_move(depth=depth) called on the game itself: the move it
\* returns, the root's children values after minimax, the Game object as the
\* call leaves it, and the exception that escaped
Game_find_best_move(self, depth) ==
    LET valid == Game_get_valid_moves(self)
        grown == expand(self, depth)
    IN  IF grown.raised # "none"
        THEN [move |-> None, values |-> <<>>, game |-> grown.game_obj,
              raised |-> grown.raised]
        ELSE
        LET root == Node_minimax(Node(0, grown.children), depth, TRUE)
            values == [k \in 1..Len(root.children) |-> root.children[k].value]
        IN  IF Len(values) = 0
            THEN [move |-> None, values |-> values, game |-> grown.game_obj,
                  raised |-> "ValueError: attempt to get argmax of an empty sequence"]
            ELSE
            LET best_move_ind == argmax(values) IN
            [move |-> <<GameMove(valid.x[best_move_ind], valid.y[best_move_ind],
                                 player_to_move_piece(grown.game_obj))>>,
             values |-> values, game |-> grown.game_obj, raised |-> "none"]

-----------------------------------------------------------------------------
(* The programs as state machines.  A script constructs the game and calls *)
(* its methods with any arguments.  A call that raises ends the script.    *)
(* A search is the script's last call (tic_tac_toe.py's __main__), or is   *)
(* followed by playing the move it returned (examples.py).                 *)

Init ==
    /\ prog \in {"bitboard", "array"}
    /\ state = NewState
    /\ game = NewGame
    /\ raised = "none"
    /\ result = NoResult

\* the indices and coordinates the calls are tried with
Indices == (0 - Margin)..(BOARD_SIZE * BOARD_SIZE - 1 + Margin)
Coords == (0 - Margin)..(BOARD_SIZE - 1 + Margin)

\* the script is running and holds no search result
Running(p) == prog = p /\ raised = "none" /\ result = NoResult

\* tic_tac_toe.py: game.play_turn(Move(ind, piece))
PlayTurn ==
    /\ Running("bitboard")
    /\ \E ind \in Indices, piece \in Pieces :
          IF MoveCtorRaises(ind)
          THEN /\ raised' = "ValueError: index out of bounds"
               /\ state' = state
          ELSE \E r \in {play_turn(state, Move(ind, piece))} :
               /\ raised' = r.raised
               /\ state' = r.state
    /\ UNCHANGED <<prog, game, result>>

\* tic_tac_toe.py: game.reset()
Reset ==
    /\ Running("bitboard")
    /\ state' = reset(state)
    /\ UNCHANGED <<prog, game, raised, result>>

\* tic_tac_toe.py: minimax(game.state, maximizing_player)
MinimaxCall(maximizing_player) ==
    /\ Running("bitboard")
    /\ \E r \in {minimax(state, maximizing_player)} :
       /\ state' = r.state
       /\ raised' = r.raised
       /\ result' = [op |-> "minimax", move |-> r.move, value |-> r.value,
                     maximizing_player |-> maximizing_player]
    /\ UNCHANGED <<prog, game>>

\* a search on a board with at most MaxSearchEmpty empty cells, with either
\* value of maximizing_player
Minimax ==
    /\ Len(open_tiles(state)) <= MaxSearchEmpty
    /\ \E maximizing_player \in BOOLEAN : MinimaxCall(maximizing_player)

\* game.py: g.make_move(Move(x, y, piece))
MakeMove ==
    /\ Running("array")
    /\ \E x \in Coords, y \in Coords, piece \in Pieces :
          \E r \in {Game_make_move(game, GameMove(x, y, piece))} :
          /\ raised' = r.raised
          /\ game' = r.game
    /\ UNCHANGED <<prog, state, result>>

\* game.py: g.reset()
ResetGame ==
    /\ Running("array")
    /\ game' = Game_reset(game)
    /\ UNCHANGED <<prog, state, raised, result>>

\* game.py: next_move = g.find_best_move(depth=depth)
FindBestMoveCall(depth) ==
    /\ Running("array")
    /\ \E r \in {Game_find_best_move(game, depth)} :
       /\ game' = r.game
       /\ raised' = r.raised
       /\ result' = [op |-> "find_best_move", depth |-> depth,
                     move |-> r.move, values |-> r.values]
    /\ UNCHANGED <<prog, state>>

\* a search with the default depth or a cut-off depth, on a board with at
\* most MaxSearchEmpty empty cells
FindBestMove ==
    /\ Len(Game_get_valid_moves(game).x) <= MaxSearchEmpty
    /\ \E depth \in (0..MaxCutDepth) \cup {DEFAULT_DEPTH} : FindBestMoveCall(depth)

\* examples.py: g.make_move(next_move)
MakeFoundMove ==
    /\ prog = "array" /\ raised = "none"
    /\ result.op = "find_best_move"
    /\ \E r \in {Game_make_move(game, result.move[1])} :
       /\ raised' = r.raised
       /\ game' = r.game
    /\ result' = NoResult
    /\ UNCHANGED <<prog, state>>

Next ==
    \/ PlayTurn
    \/ Reset
    \/ Minimax
    \/ MakeMove
    \/ ResetGame
    \/ FindBestMove
    \/ MakeFoundMove

Spec == Init /\ [][Next]_vars

\* the games played from construction by moves alone
NextMoves ==
    \/ PlayTurn
    \/ MakeMove

SpecMoves == Init /\ [][NextMoves]_vars

\* the games played from construction by moves and resets, without a search
NextPlay ==
    \/ PlayTurn
    \/ Reset
    \/ MakeMove
    \/ ResetGame

SpecPlay == Init /\ [][NextPlay]_vars

\* both programs constructed side by side: g = Game() of tic_tac_toe.py and
\* g = Game() of tic_tac_toe/game.py
InitLockstep ==
    /\ prog = "both"
    /\ state = NewState
    /\ game = NewGame
    /\ raised = "none"
    /\ result = NoResult

\* the same move played in both programs: game.play_turn(Move(ind, piece))
\* in tic_tac_toe.py and g.make_move(Move(x, y, piece)) in game.py with
\* ind = 3 * y + x; a move that either program refuses ends the script
PlaySameMove ==
    /\ prog = "both" /\ raised = "none"
    /\ \E ind \in 0..(BOARD_SIZE * BOARD_SIZE - 1), piece \in Pieces :
          \E r \in {play_turn(state, Move(ind, piece))},
             q \in {Game_make_move(game, GameMove(ind % COLS, ind \div COLS, piece))} :
          /\ state' = r.state
          /\ game' = q.game
          /\ raised' = IF r.raised # "none" THEN r.raised ELSE q.raised
    /\ UNCHANGED <<prog, result>>

NextLockstep == PlaySameMove

SpecLockstep == InitLockstep /\ [][NextLockstep]_vars

\* tic_tac_toe.py played from construction; the call of __main__ (line 227),
\* minimax(game.state, maximizing_player=game.state.current_piece_turn==Piece.X),
\* after at most MaxOpeningMarks moves
MinimaxMain ==
    /\ Cardinality(state.bits[X] \cup state.bits[O]) <= MaxOpeningMarks
    /\ MinimaxCall(state.current_piece_turn = X)

NextOpening ==
    \/ PlayTurn
    \/ MinimaxMain

SpecOpening == Init /\ [][NextOpening]_vars

\* game.py played from construction; the call of examples.py (line 11),
\* g.find_best_move(), on a board with at most MaxExampleEmpty empty cells
FindBestMoveExample ==
    /\ Len(Game_get_valid_moves(game).x) <= MaxExampleEmpty
    /\ FindBestMoveCall(DEFAULT_DEPTH)

NextExample ==
    \/ MakeMove
    \/ FindBestMoveExample
    \/ MakeFoundMove

SpecExample == Init /\ [][NextExample]_vars

\* the programs of Spec with the searches started on boards with at most
\* MaxTraverseEmpty empty cells
MinimaxTraversed ==
    /\ Len(open_tiles(state)) <= MaxTraverseEmpty
    /\ \E maximizing_player \in BOOLEAN : MinimaxCall(maximizing_player)

FindBestMoveTraversed ==
    /\ Len(Game_get_valid_moves(game).x) <= MaxTraverseEmpty
    /\ \E depth \in (0..MaxCutDepth) \cup {DEFAULT_DEPTH} : FindBestMoveCall(depth)

NextTraversal ==
    \/ PlayTurn
    \/ Reset
    \/ MinimaxTraversed
    \/ MakeMove
    \/ ResetGame
    \/ FindBestMoveTraversed

SpecTraversal == Init /\ [][NextTraversal]_vars

-----------------------------------------------------------------------------
(* The board classes called directly.  State and Board are public: a       *)
(* caller builds any board with State.set_square or Board.set_tile and     *)
(* then makes one more call, whose arguments, receiver and outcome are     *)
(* kept in result.                                                         *)

\* the contents of the nine cells, by linear index 3 * row + column
CellContents == [0..(BOARD_SIZE * BOARD_SIZE - 1) -> {X, O, Empty}]

\* State() after set_square(i, cells[i]) for every marked cell i
StateOfCells(cells) ==
    [NewState EXCEPT !.bits = [p \in Pieces |-> {i \in DOMAIN cells : cells[i] = p}]]

\* Game() after _board.set_tile(Move(x, y, cells[3y + x])) for every marked cell
GameOfCells(cells) ==
    [NewGame EXCEPT !.board = [yx \in DOMAIN Board_reset |->
                                  cells[COLS * yx[1] + yx[2]]]]

InitBoard ==
    /\ prog \in {"bitboard", "array"}
    /\ \E cells \in CellContents :
          /\ state = IF prog = "bitboard" THEN StateOfCells(cells) ELSE NewState
          /\ game = IF prog = "array" THEN GameOfCells(cells) ELSE NewGame
    /\ raised = "none"
    /\ result = NoResult

\* state.set_square(ind, piece)
SetSquare ==
    /\ Running("bitboard")
    /\ \E ind \in 0..(BOARD_SIZE * BOARD_SIZE - 1), piece \in Pieces :
          \E r \in {set_square(state, ind, piece)} :
          /\ state' = r.state
          /\ raised' = r.raised
          /\ result' = [op |-> "set_square", ind |-> ind, piece |-> piece,
                        self |-> state]
    /\ UNCHANGED <<prog, game>>

\* state.clear_square(ind, piece)
ClearSquare ==
    /\ Running("bitboard")
    /\ \E ind \in 0..(BOARD_SIZE * BOARD_SIZE - 1), piece \in Pieces :
          \E r \in {clear_square(state, ind, piece)} :
          /\ state' = r.state
          /\ raised' = r.raised
          /\ result' = [op |-> "clear_square", ind |-> ind, piece |-> piece,
                        self |-> state, after_set |-> FALSE, before_set |-> state]
    /\ UNCHANGED <<prog, game>>

\* state.set_square(ind, piece) followed by state.clear_square(ind, piece)
ClearSetSquare ==
    /\ prog = "bitboard" /\ raised = "none" /\ result.op = "set_square"
    /\ \E r \in {clear_square(state, result.ind, result.piece)} :
          /\ state' = r.state
          /\ raised' = r.raised
          /\ result' = [op |-> "clear_square", ind |-> result.ind,
                        piece |-> result.piece, self |-> state,
                        after_set |-> TRUE, before_set |-> result.self]
    /\ UNCHANGED <<prog, game>>

\* state.do_move(Move(ind, piece))
DoMove ==
    /\ Running("bitboard")
    /\ \E ind \in 0..(BOARD_SIZE * BOARD_SIZE - 1), piece \in Pieces :
          \E r \in {do_move(state, Move(ind, piece))} :
          /\ state' = r.state
          /\ raised' = r.raised
          /\ result' = [op |-> "do_move", ind |-> ind, piece |-> piece,
                        self |-> state]
    /\ UNCHANGED <<prog, game>>

\* state.has_ended()
HasEnded ==
    /\ Running("bitboard")
    /\ result' = [op |-> "has_ended", ret |-> has_ended(state)]
    /\ UNCHANGED <<prog, state, game, raised>>

\* state.open_tiles()
OpenTiles ==
    /\ Running("bitboard")
    /\ result' = [op |-> "open_tiles", ret |-> open_tiles(state)]
    /\ UNCHANGED <<prog, state, game, raised>>

\* g._board.set_tile(Move(x, y, piece))
SetTile ==
    /\ Running("array")
    /\ \E x \in Coords, y \in Coords, piece \in Pieces :
          \E r \in {Board_set_tile(game.board, GameMove(x, y, piece))} :
          /\ game' = [game EXCEPT !.board = r.board]
          /\ raised' = r.raised
          /\ result' = [op |-> "set_tile", x |-> x, y |-> y, piece |-> piece,
                        self |-> game.board]
    /\ UNCHANGED <<prog, state>>

\* g._board.get_tile(x, y)
GetTile ==
    /\ Running("array")
    /\ \E x \in Coords, y \in Coords :
          \E r \in {Board_get_tile(game.board, x, y)} :
          /\ raised' = r.raised
          /\ result' = [op |-> "get_tile", x |-> x, y |-> y, ret |-> r.tile]
    /\ UNCHANGED <<prog, state, game>>

\* g.get_valid_moves()
GetValidMoves ==
    /\ Running("array")
    /\ result' = [op |-> "get_valid_moves", ret |-> Game_get_valid_moves(game)]
    /\ UNCHANGED <<prog, state, game, raised>>

NextBoard ==
    \/ SetSquare
    \/ ClearSquare
    \/ ClearSetSquare
    \/ DoMove
    \/ HasEnded
    \/ OpenTiles
    \/ SetTile
    \/ GetTile
    \/ GetValidMoves

SpecBoard == InitBoard /\ [][NextBoard]_vars

-----------------------------------------------------------------------------
(* The rules of tic-tac-toe, stated on sets of cell indices (3 * row +     *)
(* column) independently of either program: what the claims are checked    *)
(* against.                                                                *)

AllCells == 0..8

\* the cells of the running program's board that hold piece p
Marks(p) ==
    IF prog = "bitboard"
    THEN {i \in AllCells : i \in state.bits[p]}
    ELSE {3 * yx[1] + yx[2] : yx \in {c \in DOMAIN game.board : game.board[c] = p}}

EmptyCells == AllCells \ (Marks(X) \cup Marks(O))

\* the side to move of the running program
SideToMove ==
    IF prog = "bitboard" THEN state.current_piece_turn ELSE player_to_move_piece(game)

\* the 3 rows, the 3 columns and the 2 diagonals
Lines ==
    {{3 * r + c : c \in 0..2} : r \in 0..2}
        \cup {{3 * r + c : r \in 0..2} : c \in 0..2}
        \cup {{4 * i : i \in 0..2}, {2 * i + 2 : i \in 0..2}}

OwnsLine(marks) == \E line \in Lines : line \subseteq marks

Opponent(p) == IF p = X THEN O ELSE X

\* the game-theoretic value of a position with mover to move: +1 when X
\* wins, -1 when O wins, 0 for a draw, X maximizing and O minimizing
RECURSIVE TrueValue(_, _, _)
TrueValue(xs, os, mover) ==
    IF OwnsLine(xs) THEN 1
    ELSE IF OwnsLine(os) THEN -1
    ELSE IF xs \cup os = AllCells THEN 0
    ELSE
    LET after == {IF mover = X
                    THEN TrueValue(xs \cup {i}, os, O)
                    ELSE TrueValue(xs, os \cup {i}, X) : i \in AllCells \ (xs \cup os)}
    IN  IF mover = X
        THEN CHOOSE v \in after : \A w \in after : w <= v
        ELSE CHOOSE v \in after : \A w \in after : v <= w

\* the value of the position after mover plays cell i on the current board
ValueAfter(i, mover) ==
    IF mover = X
    THEN TrueValue(Marks(X) \cup {i}, Marks(O), O)
    ELSE TrueValue(Marks(X), Marks(O) \cup {i}, X)

\* the cell of the move a search returned
FoundCell ==
    IF result.op = "minimax" THEN result.move[1].ind
    ELSE 3 * result.move[1].y + result.move[1].x

\* a search of the running program returned, for the side to move
\* (tic_tac_toe.py: with the maximizing_player of its call site, line 227)
Searched ==
    /\ raised = "none"
    /\ \/ /\ prog = "bitboard" /\ result.op = "minimax"
          /\ result.maximizing_player = (state.current_piece_turn = X)
       \/ /\ prog = "array" /\ result.op = "find_best_move"
          /\ result.depth = DEFAULT_DEPTH

-----------------------------------------------------------------------------
(* Claims *)

\* C1: minimax on the empty board, X to move and maximizing, returns the
\* value 0.
C1_EmptyBoardValueIsZero ==
    (/\ prog = "bitboard" /\ result.op = "minimax" /\ raised = "none"
     /\ EmptyCells = AllCells
     /\ state.current_piece_turn = X
     /\ result.maximizing_player)
        => result.value = 0

C1_Witness ==
    /\ prog = "bitboard" /\ result.op = "minimax" /\ raised = "none"
    /\ EmptyCells = AllCells
    /\ state.current_piece_turn = X
    /\ result.maximizing_player
    /\ result.move # None
    /\ result.value = 0

\* C2: on every non-terminal board of legal alternating play with O to
\* move, the search returns a move whose resulting position has the smallest
\* minimax value among all legal moves.
C2_SecondPicksSmallestValue ==
    (/\ Searched
     /\ SideToMove = O
     /\ Cardinality(Marks(X)) = Cardinality(Marks(O)) + 1
     /\ ~OwnsLine(Marks(X)) /\ ~OwnsLine(Marks(O)) /\ EmptyCells # {})
        => /\ result.move # None
           /\ FoundCell \in EmptyCells
           /\ \A i \in EmptyCells : ValueAfter(FoundCell, O) <= ValueAfter(i, O)

\* the game of examples.py, lines 4-8: X (1,1), O (0,0), X (1,0), O (0,1)
ExampleGame ==
    LET m1 == Game_make_move(NewGame, GameMove(1, 1, X)).game
        m2 == Game_make_move(m1, GameMove(0, 0, O)).game
        m3 == Game_make_move(m2, GameMove(1, 0, X)).game
    IN  Game_make_move(m3, GameMove(0, 1, O)).game

\* C3: after X (1,1), O (0,0), X (1,0), O (0,1) the search for X returns a
\* move after which the position has minimax value +1.
C3_ExampleMoveForcesWin ==
    (/\ prog = "array" /\ game = ExampleGame
     /\ Marks(X) = {1, 4} /\ Marks(O) = {0, 3}
     /\ Searched)
        => /\ result.move # None
           /\ result.move[1].piece = X
           /\ FoundCell \in EmptyCells
           /\ ValueAfter(FoundCell, X) = 1

C3_Witness ==
    /\ prog = "array" /\ game = ExampleGame
    /\ Marks(X) = {1, 4} /\ Marks(O) = {0, 3}
    /\ Searched
    /\ result.move # None
    /\ ValueAfter(FoundCell, X) = 1

\* the call kept in result was made on the board classes with a position
\* inside the grid
PlacedOnCell ==
    \/ prog = "bitboard" /\ result.op \in {"set_square", "do_move"}
    \/ /\ prog = "array" /\ result.op = "set_tile"
       /\ result.x \in 0..2 /\ result.y \in 0..2

\* the cell the placing call addressed held a mark of either side before it
TargetWasOccupied ==
    IF prog = "bitboard"
    THEN result.ind \in (result.self.bits[X] \cup result.self.bits[O])
    ELSE result.self[<<result.y, result.x>>] # Empty

\* C4: placing a mark with set_square, do_move or set_tile on a cell that
\* already holds a mark of either side fails with an error and leaves the
\* board unchanged, and no cell holds both marks.
C4_OccupiedCellRejected ==
    /\ (PlacedOnCell /\ TargetWasOccupied)
          => /\ raised # "none"
             /\ IF prog = "bitboard" THEN state = result.self
                ELSE game.board = result.self
    /\ Marks(X) \cap Marks(O) = {}

\* C5: get_tile and set_tile raise "Tile out of bounds" exactly for the
\* positions (x, y) with x or y outside 0..2, and accept every position
\* inside the grid.
C5_OutOfBoundsExactlyOutsideGrid ==
    (prog = "array" /\ result.op \in {"get_tile", "set_tile"})
        => LET inside == result.x \in 0..2 /\ result.y \in 0..2 IN
           /\ (raised = "Tile out of bounds") <=> ~inside
           /\ inside => raised = "none"

\* the outcome the rules give the current board: (True, Win) when X owns a
\* line, (True, Lose) when O does, (True, Draw) on a full board without a
\* line, (False, None) otherwise
RuleOutcome ==
    IF OwnsLine(Marks(X)) THEN [ended |-> TRUE, score |-> "Win"]
    ELSE IF OwnsLine(Marks(O)) THEN [ended |-> TRUE, score |-> "Lose"]
    ELSE IF EmptyCells = {} THEN [ended |-> TRUE, score |-> "Draw"]
    ELSE [ended |-> FALSE, score |-> "None"]

\* C6: on every board where at most one side owns a complete line,
\* has_ended reports a win for a side iff one of the 8 lines is entirely
\* that side's, Draw iff no line is won and no cell is empty, and
\* still-playing otherwise.
C6_OutcomeFollowsLines ==
    (/\ prog = "bitboard" /\ result.op = "has_ended"
     /\ ~(OwnsLine(Marks(X)) /\ OwnsLine(Marks(O))))
        => result.ret = RuleOutcome

C6_Witness ==
    /\ prog = "bitboard" /\ result.op = "has_ended"
    /\ OwnsLine(Marks(O)) /\ ~OwnsLine(Marks(X))
    /\ EmptyCells # {}
    /\ result.ret = [ended |-> TRUE, score |-> "Lose"]

\* C7: on every board reached from the empty board by moves the game
\* accepted, X and O never both own a complete line.
C7_NoDoubleWin ==
    ~(OwnsLine(Marks(X)) /\ OwnsLine(Marks(O)))

C7_Witness ==
    /\ prog = "bitboard" /\ raised = "none" /\ result = NoResult
    /\ ~state.is_game_on
    /\ OwnsLine(Marks(O)) /\ ~OwnsLine(Marks(X))
    /\ Cardinality(Marks(X)) = 3

\* C8: on every board reached by moves the game accepted, the number of X
\* marks minus the number of O marks is 0 or 1.
C8_MarkCountsAlternate ==
    Cardinality(Marks(X)) - Cardinality(Marks(O)) \in {0, 1}

C8_Witness ==
    /\ raised = "none"
    /\ Cardinality(Marks(X)) = 5 /\ Cardinality(Marks(O)) = 4

\* the linear (row-major) indices a legal-move enumeration returned
EnumeratedCells ==
    IF result.op = "open_tiles" THEN result.ret
    ELSE [k \in 1..Len(result.ret.x) |-> 3 * result.ret.y[k] + result.ret.x[k]]

\* C9: open_tiles and get_valid_moves return exactly the empty cells, each
\* once, in ascending row-major index order, so that the length plus the
\* number of occupied cells is 9.
C9_LegalMovesAreEmptyCellsAscending ==
    (result.op \in {"open_tiles", "get_valid_moves"})
        => LET cells == EnumeratedCells IN
           /\ \A k \in 1..(Len(cells) - 1) : cells[k] < cells[k + 1]
           /\ {cells[k] : k \in 1..Len(cells)} = EmptyCells
           /\ Len(cells) + Cardinality(Marks(X) \cup Marks(O)) = 9
           /\ result.op = "get_valid_moves"
                 => Len(result.ret.y) = Len(result.ret.x)

C9_Witness ==
    /\ prog = "array" /\ result.op = "get_valid_moves"
    /\ EmptyCells = {2, 3, 7}
    /\ result.ret = [x |-> <<2, 0, 1>>, y |-> <<0, 1, 2>>]

\* C10: a search call (minimax, find_best_move) leaves the object it was
\* called on unchanged: cell contents, side to move and game status are the
\* same after the call as before.
C10_SearchLeavesBoardUnchanged ==
    [][(result.op = "none" /\ result'.op \in {"minimax", "find_best_move"})
          => (state' = state /\ game' = game)]_vars

C10_Witness ==
    /\ result.op \in {"minimax", "find_best_move"}
    /\ raised = "none"
    /\ result.move # None
    /\ Cardinality(EmptyCells) >= 3

\* the board is one of legal alternating play that is still undecided
UndecidedLegalBoard ==
    /\ Cardinality(Marks(X)) - Cardinality(Marks(O)) = (IF SideToMove = X THEN 0 ELSE 1)
    /\ Marks(X) \cap Marks(O) = {}
    /\ ~OwnsLine(Marks(X)) /\ ~OwnsLine(Marks(O)) /\ EmptyCells # {}

\* the empty cells whose move leads to the best value for the side to move:
\* the greatest for X, the smallest for O
BestCells ==
    {i \in EmptyCells :
        \A j \in EmptyCells :
            IF SideToMove = X
            THEN ValueAfter(j, X) <= ValueAfter(i, X)
            ELSE ValueAfter(i, O) <= ValueAfter(j, O)}

Decided == OwnsLine(Marks(X)) \/ OwnsLine(Marks(O)) \/ EmptyCells = {}

\* C12: on a board whose outcome is decided minimax returns no move and the
\* value +1 if X has won, 0 for a draw, -1 if O has won, whatever
\* maximizing_player is; every value minimax returns is in {-1, 0, 1}.
C12_DecidedBoardValue ==
    (prog = "bitboard" /\ result.op = "minimax" /\ raised = "none")
        => /\ result.value \in {-1, 0, 1}
           /\ Decided
                 => /\ result.move = None
                    /\ result.value = IF OwnsLine(Marks(X)) THEN 1
                                      ELSE IF OwnsLine(Marks(O)) THEN -1
                                      ELSE 0

C12_Witness ==
    /\ prog = "bitboard" /\ result.op = "minimax" /\ raised = "none"
    /\ OwnsLine(Marks(O)) /\ EmptyCells # {}
    /\ result.maximizing_player
    /\ result.move = None /\ result.value = -1

\* placing piece on cell is legal on the board with X on xs, O on os and
\* mover to move: the board is undecided, the cell is empty and the piece
\* is the mover's
LegalPlacement(xs, os, mover, cell, piece) ==
    /\ ~OwnsLine(xs) /\ ~OwnsLine(os) /\ xs \cup os # AllCells
    /\ cell \in AllCells \ (xs \cup os)
    /\ piece = mover

\* the cells of a game.py board that hold piece p
BoardMarks(board, p) ==
    {3 * yx[1] + yx[2] : yx \in {c \in DOMAIN board : board[c] = p}}

\* the marks the search of the running program placed during its traversal
\* (tic_tac_toe.py: every do_move; game.py: every make_move that reached
\* set_tile), each with the turn before and after it
SearchPlacements ==
    IF prog = "bitboard"
    THEN {[xs |-> a.on.bits[X], os |-> a.on.bits[O],
           mover |-> a.on.current_piece_turn,
           cell |-> a.move.ind, piece |-> a.move.piece,
           next_mover |-> a.new_state.current_piece_turn,
           undecided_after |-> ~has_ended(a.new_state).ended]
            : a \in minimax_placements(state, result.maximizing_player)}
    ELSE {[xs |-> BoardMarks(a.on.board, X), os |-> BoardMarks(a.on.board, O),
           mover |-> player_to_move_piece(a.on),
           cell |-> 3 * a.move.y + a.move.x, piece |-> a.move.piece,
           next_mover |-> player_to_move_piece(a.new_game),
           undecided_after |-> a.new_game.game_state = "Playing"]
            : a \in {b \in expand_placements(game, result.depth) : b.raised = "none"}}

\* C13: every move the search applies during its traversal is legal on the
\* board it is applied to (undecided board, empty cell, mark of the side to
\* move), and the side to move alternates along every branch.
C13_SearchPlacesLegally ==
    (result.op \in {"minimax", "find_best_move"})
        => \A a \in SearchPlacements :
              /\ LegalPlacement(a.xs, a.os, a.mover, a.cell, a.piece)
              /\ a.undecided_after => a.next_mover = Opponent(a.mover)

C13_Witness ==
    /\ result.op \in {"minimax", "find_best_move"}
    /\ raised = "none"
    /\ Cardinality(EmptyCells) = 3
    /\ \E a \in SearchPlacements : Cardinality(a.xs \cup a.os) = 8


\* the outcome State.has_ended reports
BitboardOutcome(s) ==
    LET he == has_ended(s) IN
    IF ~he.ended THEN "playing"
    ELSE IF he.score = "Win" THEN "X won"
    ELSE IF he.score = "Lose" THEN "O won"
    ELSE "draw"

\* the outcome Game.is_win and Game.is_draw report (is_draw after is_win)
ArrayOutcome(g) ==
    IF Game_is_win(g, X) THEN "X won"
    ELSE IF Game_is_win(g, O) THEN "O won"
    ELSE IF Game_is_draw(g) THEN "draw"
    ELSE "playing"

\* C14: after the same sequence of legal moves (cell index = 3 * row +
\* column) State.has_ended of tic_tac_toe.py and Game.is_win / Game.is_draw
\* of game.py report the same outcome: playing, X won, O won or draw.
C14_SameOutcomeInBothPrograms ==
    (prog = "both" /\ raised = "none")
        => /\ \A c \in AllCells, p \in Pieces :
                 c \in state.bits[p] <=> game.board[<<c \div COLS, c % COLS>>] = p
           /\ BitboardOutcome(state) = ArrayOutcome(game)
           /\ (game.game_state = "Playing") <=> (BitboardOutcome(state) = "playing")

C14_Witness ==
    /\ prog = "both" /\ raised = "none"
    /\ {2, 4, 6} \subseteq state.bits[O]
    /\ Cardinality(state.bits[X]) = 3
    /\ BitboardOutcome(state) = "O won" /\ ArrayOutcome(game) = "O won"

\* C15: in every state reached by play_turn and reset calls the stored
\* status agrees with the board: is_game_on is false exactly when has_ended()
\* reports the game ended, and then score is the score has_ended() reports.
C15_StoredStatusAgreesWithBoard ==
    prog = "bitboard"
        => /\ (~state.is_game_on) <=> has_ended(state).ended
           /\ has_ended(state).ended => state.score = has_ended(state).score

\* the running game is as a freshly constructed one: the board is empty, X
\* is the side to move and X's move to any cell is accepted
LikeFreshGame ==
    IF prog = "bitboard"
    THEN /\ state.bits[X] = {} /\ state.bits[O] = {}
         /\ state.current_piece_turn = X
         /\ \A c \in AllCells : play_turn(state, Move(c, X)).raised = "none"
    ELSE /\ game.board = Board_reset
         /\ player_to_move_piece(game) = X
         /\ \A c \in AllCells :
               Game_make_move(game, GameMove(c % COLS, c \div COLS, X)).raised = "none"

\* C16: after Game.reset, called in any reachable state, the game is
\* equivalent to a freshly constructed one: empty board, X to move, and a
\* legal move by X is accepted.
C16_ResetGivesFreshGame ==
    [][(Reset \/ ResetGame) => LikeFreshGame']_vars

\* play_turn(Move(ind, piece)) is called on a game that is on, with ind a
\* cell of the board that is empty and piece the side to move
LegalPlayTurn(s, ind, piece) ==
    /\ s.is_game_on
    /\ ind \in AllCells
    /\ ind \notin (s.bits[X] \cup s.bits[O])
    /\ piece = s.current_piece_turn

\* make_move(Move(x, y, piece)) likewise
LegalMakeMove(g, x, y, piece) ==
    /\ g.game_state = "Playing"
    /\ x \in 0..(COLS - 1) /\ y \in 0..(ROWS - 1)
    /\ g.board[<<y, x>>] = Empty
    /\ piece = player_to_move_piece(g)

\* what play_turn(Move(ind, piece)) does in state s
PlayTurnOutcome(s, ind, piece) ==
    IF MoveCtorRaises(ind)
    THEN [state |-> s, raised |-> "ValueError: index out of bounds"]
    ELSE play_turn(s, Move(ind, piece))

\* C17: play_turn and make_move change the state only when the game is on,
\* the target cell is in bounds and empty and the mark is the side to move's;
\* in every other case (every move after the game has ended among them) the
\* call raises and leaves board, side to move and status unchanged.
C17_IllegalMovesRaiseAndChangeNothing ==
    /\ prog = "bitboard" =>
          \A ind \in Indices, piece \in Pieces :
             LET r == PlayTurnOutcome(state, ind, piece) IN
             IF LegalPlayTurn(state, ind, piece)
             THEN /\ r.raised = "none"
                  /\ r.state.bits = [state.bits EXCEPT ![piece] = @ \cup {ind}]
             ELSE r.raised # "none" /\ r.state = state
    /\ prog = "array" =>
          \A x \in Coords, y \in Coords, piece \in Pieces :
             LET r == Game_make_move(game, GameMove(x, y, piece)) IN
             IF LegalMakeMove(game, x, y, piece)
             THEN /\ r.raised = "none"
                  /\ r.game.board = [game.board EXCEPT ![<<y, x>>] = piece]
             ELSE r.raised # "none" /\ r.game = game

\* a move by the side to move to an empty cell was refused after the game
\* had ended
C17_Witness ==
    \/ /\ prog = "bitboard" /\ raised = "Move not valid: game has ended"
       /\ ~state.is_game_on /\ has_ended(state).ended
       /\ EmptyCells # {}
    \/ /\ prog = "array" /\ raised = "GameState is not GameState.Playing"
       /\ game.game_state = "Finished"
       /\ EmptyCells # {}

\* the deepest nesting of recursive calls of the search that has returned
SearchDepths ==
    IF prog = "bitboard" THEN {minimax_depth(state)}
    ELSE LET grown == expand(game, result.depth) IN
         {find_best_move_depth(game, result.depth)}
            \cup (IF grown.raised # "none" THEN {}
                  ELSE {Node_minimax_depth(Node(0, grown.children), result.depth)})

\* C18: every search call on a reachable board terminates, and the depth of
\* its recursion never exceeds the number of empty cells of the board it was
\* called on.
C18_RecursionBoundedByEmptyCells ==
    (result.op \in {"minimax", "find_best_move"})
        => \A d \in SearchDepths : d <= Cardinality(EmptyCells)

\* a search whose recursion is as deep as the board has empty cells
C18_Witness ==
    /\ result.op \in {"minimax", "find_best_move"}
    /\ raised = "none"
    /\ Cardinality(EmptyCells) = 3
    /\ \E d \in SearchDepths : d = 3

\* C19: set_square(ind, piece) on an empty cell followed by
\* clear_square(ind, piece) succeeds and restores the board as it was before
\* the set; clear_square raises only when the cell does not hold the piece.
C19_ClearSquareUndoesSetSquare ==
    (prog = "bitboard" /\ result.op = "clear_square")
        => /\ (/\ result.after_set
               /\ result.ind \notin (result.before_set.bits[X]
                                        \cup result.before_set.bits[O]))
                 => (raised = "none" /\ state.bits = result.before_set.bits)
           /\ raised # "none" => result.ind \notin result.self.bits[result.piece]

\* the level of the tree whose nodes enter the evaluation with the value
\* they were created with, when find_best_move is called with depth:
\* minimax(root, depth) returns the nodes of level depth as they are, and
\* the children of the root are compared in any case
CutoffLevel(depth) == IF depth = 0 THEN 1 ELSE depth

\* the tree with every node below the given level removed
RECURSIVE CutBelow(_, _)
CutBelow(children, level) ==
    [k \in 1..Len(children) |->
        Node(children[k].value,
             IF level = 1 THEN <<>> ELSE CutBelow(children[k].children, level - 1))]

\* the values of the root's children after find_best_move's minimax, had the
\* nodes below the cut-off level not been there
ValuesWithoutLowerLevels ==
    LET cut == CutBelow(expand(game, result.depth).children, CutoffLevel(result.depth))
        root == Node_minimax(Node(0, cut), result.depth, TRUE)
    IN  [k \in 1..Len(root.children) |-> root.children[k].value]

\* C20: find_best_move called with a depth smaller than the number of empty
\* cells, in any reachable game state: every position at the depth cut-off
\* that is still playing contributes the value 0, and the positions below
\* the cut-off do not influence the values the move is chosen from.
C20_CutoffValueIsNeutral ==
    (/\ prog = "array" /\ result.op = "find_best_move" /\ raised = "none"
     /\ result.depth < Cardinality(EmptyCells))
        => /\ playing_node_values(game, CutoffLevel(result.depth)) \subseteq {0}
           /\ result.values = ValuesWithoutLowerLevels

=============================================================================
